---------------------------- MODULE Spec2Model ----------------------------
(***************************************************************************)
(* A model of the retrieval-augmented-generation demo:                     *)
(*   - the vector store and its three readers: the search_chromadb tool,   *)
(*     executeRAG and the debug/inspect endpoint (specification Spec);     *)
(*   - the agent loop of executeAgenticRAG (specification SpecAgent);      *)
(*   - the polling loop of the search_openai_assistant tool                *)
(*     (specification SpecAssistant);                                      *)
(*   - the lazily initialised global store handle of getVectorStore under  *)
(*     concurrent requests (specification SpecStore);                      *)
(*   - executeRAG on collections that texts were ingested into             *)
(*     (specification SpecRag).                                            *)
(* Distance scores are real numbers in the program; the model holds them   *)
(* in tenths (0.8 is 8, 1.2 is 12).  Strings that the program takes apart  *)
(* (the comma-joined tags) are sequences of one-character strings.         *)
(***************************************************************************)
EXTENDS Integers, Sequences, FiniteSets, TLC

VARIABLES
  store,      \* the collection's chunks, in insertion order
  resp,       \* the response of the request being served, NoResp when none
  llmCalls,   \* LLM invocations made while serving that request
  \* one invocation of the search_openai_assistant tool
  aPc,        \* the await the invocation stands at
  runStatus,  \* runStatus.status, the status last retrieved
  attempts,   \* the local attempts
  aWaits,     \* one-second waits made so far
  aRetrievals,\* runs.retrieve calls made so far
  aResult,    \* what the invocation returned, NoResult while it runs
  \* one call of executeAgenticRAG
  agPc,          \* "idle", "decide", "capped", "returned" or "thrown"
  hasAssistant,  \* whether an assistantId was given
  iterations,    \* the executor's count of finished turns
  steps,         \* intermediateSteps
  agResult,      \* what executeAgenticRAG returned or threw
  elapsed,       \* one-second polling waits the call has sat through
  \* getVectorStore under concurrent requests
  globalStore,   \* global.vectorStore: NoHandle or a store object
  hPc,           \* where each caller of getVectorStore stands
  hMine,         \* the store object each caller's open or create built
  handed,        \* the store objects getVectorStore has returned so far
  opens,         \* how often the backing store was opened or created
  collection,    \* the backend's collection: whether it exists, its init documents
  env            \* process.env: the provider and which Pinecone settings are set

retrievalVars == <<store, resp, llmCalls>>
assistantVars == <<aPc, runStatus, attempts, aWaits, aRetrievals, aResult>>
agentVars == <<agPc, hasAssistant, iterations, steps, agResult, elapsed>>
handleVars == <<globalStore, hPc, hMine, handed, opens, collection, env>>

-----------------------------------------------------------------------------
(* Bounds of the model *)

\* the largest number of chunks the collection holds
MaxStore == 4

\* the most tool calls the decision model asks for in one turn
MaxFanout == 2

\* the requests that call getVectorStore concurrently
NumCallers == 2

\* the most texts ingested into the collections that executeRAG is asked on
MaxRagIngests == 3

-----------------------------------------------------------------------------
(* JavaScript values *)

\* An argument as the caller sends it: left out, null, or a value
Omitted == [isNull |-> TRUE, omitted |-> TRUE]
Null == [isNull |-> TRUE, omitted |-> FALSE]
Some(x) == [isNull |-> FALSE, omitted |-> FALSE, val |-> x]

\* zod's .nullable().default(d): only a field left out takes the default
ZodDefault(o, d) == IF o.omitted THEN d ELSE o

\* left ?? right
Coalesce(o, d) == IF o.isNull THEN d ELSE o.val

\* the truth value of a nullable string: null and "" are falsy
TruthyStr(o) == ~o.isNull /\ o.val # ""

\* a metadata field that was never written
Undefined == "undefined"

\* left || right on a metadata string
OrElse(s, d) == IF s = Undefined \/ s = "" THEN d ELSE s

Min(a, b) == IF a < b THEN a ELSE b

\* Array.prototype.slice(0, n) for n >= 0
SliceTo(s, n) == SubSeq(s, 1, Min(n, Len(s)))

\* Array.prototype.includes
Includes(s, x) == \E i \in 1..Len(s) : s[i] = x

\* Array.prototype.join(",") over strings held as character sequences
RECURSIVE JoinComma(_)
JoinComma(list) ==
  IF list = <<>> THEN <<>>
  ELSE IF Len(list) = 1 THEN list[1]
       ELSE list[1] \o <<",">> \o JoinComma(Tail(list))

\* String.prototype.split(","): "" splits to [""], "a," to ["a", ""]
RECURSIVE SplitComma(_)
SplitComma(str) ==
  IF \A i \in 1..Len(str) : str[i] # "," THEN <<str>>
  ELSE LET i == CHOOSE i \in 1..Len(str) :
                  str[i] = "," /\ \A j \in 1..(i - 1) : str[j] # ","
       IN <<SubSeq(str, 1, i - 1)>> \o SplitComma(SubSeq(str, i + 1, Len(str)))

-----------------------------------------------------------------------------
(* The collection *)

\* the initialization document written when the collection is created
SentinelDoc ==
  [pageContent |-> "Initialization document", source |-> "init",
   documentName |-> Undefined, category |-> Undefined,
   documentType |-> Undefined, tags |-> <<>>, chunkIndex |-> 0, score |-> 4]

\* The ingestion requests of the model: the metadata the caller sends, the
\* name of the upload, and the chunks the splitter cuts the text into, each
\* with its distance (in tenths) to the query the readers ask.
IngestRequests ==
  { [documentName |-> Null, category |-> Some("Technology"),
     documentType |-> Some("policy"), tags |-> Some(<< <<"a">>, <<"b">> >>),
     sourceName |-> "tech.txt", splits |-> << [text |-> "t", score |-> 8] >>],
    [documentName |-> Null, category |-> Some("Healthcare"),
     documentType |-> Some("report"),
     tags |-> Some(<< <<"b">>, <<"a", ",", "c">> >>),
     sourceName |-> "health.txt", splits |-> << [text |-> "h", score |-> 3] >>],
    [documentName |-> Null, category |-> Null,
     documentType |-> Null, tags |-> Null,
     sourceName |-> "user_upload",
     splits |-> << [text |-> "p1", score |-> 5], [text |-> "p2", score |-> 9] >>],
    [documentName |-> Some("far"), category |-> Some("Technology"),
     documentType |-> Some("report"), tags |-> Some(<< <<"a">> >>),
     sourceName |-> "far.txt", splits |-> << [text |-> "f", score |-> 13] >>],
    [documentName |-> Null, category |-> Some("Technology"),
     documentType |-> Some("policy"), tags |-> Some(<< <<"a">> >>),
     sourceName |-> "test-sample.txt",
     splits |-> << [text |-> "s", score |-> 2] >>] }

\* the index counted from one
ChunkIndexFromOne(idx) == idx

\* chunkIndex: idx, the position in chunks counted from zero
ChunkIndex(idx) == idx - 1

\* the Document the ingest route builds from chunk idx of a request
MakeDocument(req, idx) ==
  LET finalDocumentName ==
        IF TruthyStr(req.documentName) THEN req.documentName.val
        ELSE req.sourceName
  IN [pageContent |-> req.splits[idx].text,
      source |-> finalDocumentName,
      documentName |-> finalDocumentName,
      category |-> IF TruthyStr(req.category) THEN req.category.val
                   ELSE "uncategorized",
      documentType |-> IF TruthyStr(req.documentType) THEN req.documentType.val
                       ELSE "unknown",
      tags |-> IF req.tags.isNull THEN <<>> ELSE JoinComma(req.tags.val),
      chunkIndex |-> ChunkIndex(idx),
      score |-> req.splits[idx].score]

IngestDocuments(req) ==
  [idx \in 1..Len(req.splits) |-> MakeDocument(req, idx)]

\* file.name.split(".").pop().toLowerCase() on the file names of the model
FileExtension(name) ==
  IF name \in {"tech.txt", "health.txt", "far.txt", "test-sample.txt",
               "empty.txt"} THEN "txt"
  ELSE IF name \in {"empty.json", "broken.json"} THEN "json"
  ELSE IF name \in {"scan.pdf"} THEN "pdf"
  ELSE "exe"

\* a request whose text is cut into the given chunks under the given name
Carrying(name, splits) ==
  [documentName |-> Null, category |-> Null, documentType |-> Null,
   tags |-> Null, sourceName |-> name, splits |-> splits]

\* A call of POST /api/ingest: its content type, whether the form holds a
\* file, and what the text is.  A text that is a string is held in
\* req.splits, the chunks the splitter cuts it into: the empty string has
\* none.  body.text can also be absent or a number, and the content of an
\* uploaded file can be unreadable to JSON.parse or to pdf-parse.
IngestCalls ==
  { [contentType |-> IF req.sourceName = "user_upload"
                     THEN "application/json" ELSE "multipart/form-data",
     hasFile |-> req.sourceName # "user_upload",
     textKind |-> "string", req |-> req] : req \in IngestRequests }
  \cup
  { [contentType |-> "application/json", hasFile |-> FALSE,
     textKind |-> kind, req |-> Carrying("user_upload", <<>>)] :
      kind \in {"string", "undefined", "number"} }
  \cup
  { [contentType |-> "multipart/form-data", hasFile |-> TRUE,
     textKind |-> "string", req |-> Carrying(name, <<>>)] :
      name \in {"empty.txt", "empty.json", "scan.pdf", "notes.exe"} }
  \cup
  { [contentType |-> "multipart/form-data", hasFile |-> TRUE,
     textKind |-> "unreadable", req |-> Carrying("broken.json", <<>>)],
    [contentType |-> "multipart/form-data", hasFile |-> FALSE,
     textKind |-> "undefined", req |-> Carrying("user_upload", <<>>)],
    [contentType |-> "text/plain", hasFile |-> FALSE,
     textKind |-> "string", req |-> Carrying("user_upload", <<>>)] }

\* !text for the text of a call
EmptyText(call) == call.textKind = "string" /\ call.req.splits = <<>>

\* the response of POST /api/ingest with the documents it added; addUp is
\* whether addDocuments resolves
IngestPost(call, addUp) ==
  LET req == call.req
      documents == IngestDocuments(req)
      Reply(kind, status, msg, docs) ==
        [op |-> "ingest", kind |-> kind, status |-> status, text |-> msg,
         chunks |-> Len(docs), added |-> docs, call |-> call]
      Split ==
        IF addUp
        THEN Reply("ingested", 200, "Successfully ingested", documents)
        ELSE Reply("failed", 500, "Failed to ingest documents", <<>>)
      Caught == Reply("failed", 500, "Failed to ingest documents", <<>>)
  IN IF call.contentType = "multipart/form-data"
     THEN IF ~call.hasFile
          THEN Reply("rejected", 400, "No file uploaded", <<>>)
          ELSE IF FileExtension(req.sourceName) = "pdf"
          THEN IF call.textKind # "string" \/ EmptyText(call)
               THEN Caught ELSE Split
          ELSE IF FileExtension(req.sourceName) = "json"
          THEN IF call.textKind # "string" THEN Caught ELSE Split
          ELSE IF FileExtension(req.sourceName) = "txt"
          THEN Split
          ELSE Reply("rejected", 400, "Unsupported file type", <<>>)
     ELSE IF call.contentType = "application/json"
     THEN IF EmptyText(call) \/ call.textKind # "string"
          THEN Reply("rejected", 400,
                     "Text is required and must be a string", <<>>)
          ELSE Split
     ELSE Reply("rejected", 400, "Invalid content type", <<>>)

\* String.prototype.includes("test-sample") on the sources of the model
IsTestSample(source) == source \in {"test-sample.txt"}

\* the chunks of s without the one at position i
RemoveAt(s, i) == SubSeq(s, 1, i - 1) \o SubSeq(s, i + 1, Len(s))

\* the chunks by ascending distance, the earlier inserted first among equals
RECURSIVE NearestFirst(_)
NearestFirst(s) ==
  IF s = <<>> THEN <<>>
  ELSE LET i == CHOOSE i \in 1..Len(s) :
                  \A j \in 1..Len(s) :
                    \/ s[i].score < s[j].score
                    \/ s[i].score = s[j].score /\ i <= j
       IN <<s[i]>> \o NearestFirst(RemoveAt(s, i))

\* store.similaritySearchWithScore(query, k): the k nearest chunks
SimilaritySearchWithScore(st, k) == SliceTo(NearestFirst(st), k)

\* store.similaritySearch(query, k): the same chunks without their scores
SimilaritySearch(st, k) == SimilaritySearchWithScore(st, k)

-----------------------------------------------------------------------------
(* The search_chromadb tool *)

DefaultK == 4
SchemaDefaultThreshold == 12
FallbackThreshold == 8
OverFetch == 3
HighTier == 3
MediumTier == 5

\* the tool's zod schema applied to the arguments of a call
SchemaParse(args) ==
  [k |-> ZodDefault(args.k, Some(DefaultK)),
   scoreThreshold |-> ZodDefault(args.scoreThreshold, Some(SchemaDefaultThreshold)),
   category |-> ZodDefault(args.category, Null),
   documentType |-> ZodDefault(args.documentType, Null),
   tags |-> ZodDefault(args.tags, Null)]

\* const resultCount = k ?? 4
ResultCount(in) == Coalesce(in.k, DefaultK)

\* const threshold = scoreThreshold ?? 0.8
Threshold(in) == Coalesce(in.scoreThreshold, FallbackThreshold)

\* the search asked for resultCount chunks only
FetchCountExact(in) == ResultCount(in)

\* similaritySearchWithScore(query, resultCount * 3)
FetchCount(in) == ResultCount(in) * OverFetch

\* a comparison turned around
WithinThresholdFlipped(doc, in) == doc.score >= Threshold(in)

\* the filter on the score: score <= threshold
WithinThreshold(doc, in) == doc.score <= Threshold(in)

\* the test on the init document left out
IsTestDataOnly(doc) ==
  \/ IsTestSample(doc.source)
  \/ doc.source = "user_upload" /\ OrElse(doc.documentName, "") = ""

\* the filter on test and initialization data
IsInitOrTestData(doc) ==
  \/ doc.source = "init"
  \/ IsTestSample(doc.source)
  \/ doc.source = "user_upload" /\ OrElse(doc.documentName, "") = ""

\* the tags of a stored chunk, split back into an array
TagsArray(doc) == IF doc.tags = <<>> THEN <<>> ELSE SplitComma(doc.tags)

\* the category compared only when the chunk carries none
MatchesCategoryLoose(doc, in) ==
  (TruthyStr(in.category) /\ doc.category = Undefined) =>
    doc.category = in.category.val

\* the metadata filters that are set
MatchesCategory(doc, in) ==
  TruthyStr(in.category) => doc.category = in.category.val

MatchesDocumentType(doc, in) ==
  TruthyStr(in.documentType) => doc.documentType = in.documentType.val

MatchesTags(doc, in) ==
  (~in.tags.isNull /\ Len(in.tags.val) > 0) =>
    \E i \in 1..Len(in.tags.val) : Includes(TagsArray(doc), in.tags.val[i])

\* the callback of filteredByScore.filter(...)
KeepDoc(doc, in) ==
  /\ ~IsInitOrTestData(doc)
  /\ MatchesCategory(doc, in)
  /\ MatchesDocumentType(doc, in)
  /\ MatchesTags(doc, in)

\* the tiers with their bounds left out of them
RelevanceStrict(score) ==
  IF score < HighTier THEN "high"
  ELSE IF score < MediumTier THEN "medium" ELSE "low"

Relevance(score) ==
  IF score <= HighTier THEN "high"
  ELSE IF score <= MediumTier THEN "medium" ELSE "low"

\* the index of the array taken as it is
RankFromZero(idx) == idx - 1

\* rank: idx + 1, the position in filteredDocs counted from one
Rank(idx) == idx

FormatResult(doc, idx) ==
  [rank |-> Rank(idx),
   content |-> doc.pageContent,
   documentName |-> OrElse(doc.documentName, doc.source),
   source |-> doc.source,
   category |-> doc.category,
   documentType |-> doc.documentType,
   tags |-> TagsArray(doc),
   chunkIndex |-> doc.chunkIndex,
   similarityScore |-> doc.score,
   relevance |-> Relevance(doc.score)]

\* the filters without the final slice(0, resultCount)
FilteredDocsUncut(docsWithScores, in) ==
  SelectSeq(SelectSeq(docsWithScores, LAMBDA d : WithinThreshold(d, in)),
            LAMBDA d : KeepDoc(d, in))

\* the chunks the tool keeps of the candidates the store returned
FilteredDocs(docsWithScores, in) ==
  LET filteredByScore ==
        SelectSeq(docsWithScores, LAMBDA d : WithinThreshold(d, in))
  IN SliceTo(SelectSeq(filteredByScore, LAMBDA d : KeepDoc(d, in)),
             ResultCount(in))

\* the rethrow a missing try/catch would leave
ChromaRethrow(message) ==
  [op |-> "tool", kind |-> "thrown", text |-> message]

\* catch (error): the error becomes the returned text
ChromaCatch(message) ==
  [op |-> "tool", kind |-> "error", text |-> "Error searching ChromaDB"]

\* the filters reported with the threshold as the caller sent it
FilterInfoRaw(in) ==
  [category |-> in.category, documentType |-> in.documentType,
   tags |-> in.tags, scoreThreshold |-> in.scoreThreshold]

\* const filterInfo = { category, documentType, tags, scoreThreshold: threshold }
FilterInfo(in) ==
  [category |-> in.category, documentType |-> in.documentType,
   tags |-> in.tags, scoreThreshold |-> Some(Threshold(in))]

\* func of the tool: the envelope it returns, with the locals of the call
ChromaDBToolFunc(st, args, backendUp) ==
  LET in == SchemaParse(args)
      fetched == FetchCount(in)
      docsWithScores == SimilaritySearchWithScore(st, fetched)
      filteredDocs == FilteredDocs(docsWithScores, in)
      locals == [resultCount |-> ResultCount(in), threshold |-> Threshold(in),
                 fetched |-> fetched, searches |-> 1]
  IN IF ~backendUp
     THEN ChromaCatch("vector store error")
     ELSE IF Len(filteredDocs) = 0
     THEN [op |-> "tool", kind |-> "empty", args |-> args, locals |-> locals,
           candidates |-> docsWithScores,
           results |-> <<>>,
           filtersApplied |-> FilterInfo(in)]
     ELSE [op |-> "tool", kind |-> "found", args |-> args, locals |-> locals,
           candidates |-> docsWithScores,
           found |-> Len(filteredDocs),
           scoreThreshold |-> in.scoreThreshold,
           filters |-> [category |-> in.category,
                        documentType |-> in.documentType,
                        tags |-> in.tags],
           results |-> [idx \in 1..Len(filteredDocs) |->
                          FormatResult(filteredDocs[idx], idx)]]

\* the arguments the decision model may send
ToolArgs ==
  [k : {Omitted, Null, Some(1), Some(2)},
   scoreThreshold : {Omitted, Null, Some(5)},
   category : {Omitted, Some(""), Some("Technology")},
   documentType : {Omitted, Some("report")},
   tags : {Omitted, Some(<<>>), Some(<< <<"a">> >>)}]

-----------------------------------------------------------------------------
(* executeRAG *)

RagK == 4

RefusalAnswer == "I don't have any documents to answer that question."

\* relevantDocs.filter(doc => doc.metadata.source !== "init")
NotInit(doc) == doc.source # "init"

RagFilteredDocs(st) ==
  SelectSeq(SimilaritySearch(st, RagK), LAMBDA d : NotInit(d))

\* the early return on an empty context left out
RagAlwaysInvokesLLM(st) == TRUE

\* the LLM is reached only past the early return on an empty context
RagInvokesLLM(st) == Len(RagFilteredDocs(st)) # 0

\* the numbered context block: entry idx is "[idx] pageContent"
RagContext(docs) ==
  [idx \in 1..Len(docs) |-> [number |-> idx, text |-> docs[idx].pageContent]]

RagSources(docs) ==
  [idx \in 1..Len(docs) |->
     [content |-> docs[idx].pageContent,
      metadata |-> [source |-> docs[idx].source,
                    chunkIndex |-> docs[idx].chunkIndex]]]

\* the value executeRAG returns, or the error it throws
ExecuteRAGFunc(st, backendUp, llmUp) ==
  LET filteredDocs == RagFilteredDocs(st)
  IN IF ~backendUp
     THEN [op |-> "rag", kind |-> "error", text |-> "vector store error"]
     ELSE IF ~RagInvokesLLM(st)
     THEN [op |-> "rag", kind |-> "refused", answer |-> RefusalAnswer,
           context |-> <<>>, sources |-> <<>>]
     ELSE IF ~llmUp
     THEN [op |-> "rag", kind |-> "error", text |-> "LLM error"]
     ELSE [op |-> "rag", kind |-> "answered", answer |-> "LLM answer",
           context |-> RagContext(filteredDocs),
           sources |-> RagSources(filteredDocs)]

-----------------------------------------------------------------------------
(* The debug endpoint *)

DebugLimit == 100

\* collection.count()
CollectionCount(st) == Len(st)

\* collection.get({limit: 100}), then the filter on the init document
DebugDocuments(st) ==
  SelectSeq(SliceTo(st, DebugLimit), LAMBDA d : d.source # "init")

DebugChromaDBFunc(st, backendUp) ==
  IF ~backendUp
  THEN [op |-> "debug", kind |-> "error",
        text |-> "Failed to fetch vector store data"]
  ELSE LET documents == DebugDocuments(st)
       IN [op |-> "debug", kind |-> "listed",
           totalCount |-> CollectionCount(st),
           documentsShown |-> Len(documents),
           documents |-> [i \in 1..Len(documents) |->
                            [content |-> documents[i].pageContent,
                             source |-> documents[i].source]]]

-----------------------------------------------------------------------------
(* What a tool function hands back to the agent executor *)

\* a returned string that is not JSON
Text(msg, detail) ==
  [thrown |-> FALSE, json |-> FALSE, msg |-> msg, detail |-> detail]

\* a returned string that is JSON.stringify(value)
Json(value) == [thrown |-> FALSE, json |-> TRUE, value |-> value]

\* an exception that leaves the function
Thrown(message) == [thrown |-> TRUE, json |-> FALSE, message |-> message]

-----------------------------------------------------------------------------
(* The search_openai_assistant tool *)

MaxAttempts == 30

TimeoutMsg ==
  "OpenAI Assistant took too long to respond (timeout after 30 seconds)"
RunFailedMsg == "OpenAI Assistant run failed with status: "
NoResponseMsg == "No response from OpenAI Assistant"
AssistantErrorMsg == "Error querying OpenAI Assistant: "

NoResult == [thrown |-> FALSE, json |-> FALSE, msg |-> "", detail |-> "running"]

\* the statuses of a run; the last four are final
PendingStatuses == {"queued", "in_progress"}
FailedStatuses == {"failed", "cancelled", "expired"}
RunStatuses == PendingStatuses \cup FailedStatuses \cup {"completed"}

\* the statuses a run can show once it has shown status s
LaterStatuses(s) ==
  IF s = "queued" THEN RunStatuses
  ELSE IF s = "in_progress" THEN RunStatuses \ {"queued"}
  ELSE {s}

\* the rethrow a missing try/catch would leave
AssistantRethrow(err) == err

\* catch (error): the error becomes the returned text
AssistantCatch(err) == Text(AssistantErrorMsg, err.message)

\* the test of the while loop
LoopTestOff(status, n) == status # "completed" /\ n <= MaxAttempts

LoopTest(status, n) == status # "completed" /\ n < MaxAttempts

\* the answer envelope
AssistantAnswer(text) == Json([source |-> "OpenAI Assistant", answer |-> text])

InitAssistant ==
  /\ aPc = "idle"
  /\ runStatus = "none"
  /\ attempts = 0
  /\ aWaits = 0
  /\ aRetrievals = 0
  /\ aResult = NoResult

AssistantReturn(value) ==
  /\ aPc' = "done"
  /\ aResult' = value

\* func is called: threads.create, messages.create and runs.create
AssistantStart ==
  /\ aPc = "idle"
  /\ \E apiUp \in BOOLEAN :
       IF apiUp
       THEN aPc' = "retrieve" /\ aResult' = NoResult
       ELSE AssistantReturn(AssistantCatch(Thrown("API error")))
  /\ runStatus' = "none"
  /\ attempts' = 0
  /\ aWaits' = 0
  /\ aRetrievals' = 0
  /\ UNCHANGED <<retrievalVars, agentVars, handleVars>>

\* runs.retrieve, before the loop and at the end of each turn of it
AssistantRetrieve ==
  /\ aPc = "retrieve"
  /\ aRetrievals' = aRetrievals + 1
  /\ \/ \E s \in LaterStatuses(IF runStatus = "none" THEN "queued"
                                 ELSE runStatus) :
          /\ runStatus' = s
          /\ attempts' = IF aRetrievals = 0 THEN 0 ELSE attempts + 1
          /\ aPc' = "loop"
          /\ UNCHANGED aResult
     \/ /\ AssistantReturn(AssistantCatch(Thrown("API error")))
        /\ UNCHANGED <<runStatus, attempts>>
  /\ UNCHANGED <<aWaits, retrievalVars, agentVars, handleVars>>

\* a turn of the loop sees a failed run and returns
AssistantRunFailed ==
  /\ aPc = "loop"
  /\ LoopTest(runStatus, attempts)
  /\ runStatus \in FailedStatuses
  /\ AssistantReturn(Text(RunFailedMsg, runStatus))
  /\ UNCHANGED <<runStatus, attempts, aWaits, aRetrievals, retrievalVars, agentVars, handleVars>>

\* a turn of the loop waits one second
AssistantWait ==
  /\ aPc = "loop"
  /\ LoopTest(runStatus, attempts)
  /\ runStatus \notin FailedStatuses
  /\ aWaits' = aWaits + 1
  /\ aPc' = "retrieve"
  /\ UNCHANGED <<runStatus, attempts, aRetrievals, aResult, retrievalVars, agentVars, handleVars>>

\* the loop is left with a run that is not completed
AssistantTimeout ==
  /\ aPc = "loop"
  /\ ~LoopTest(runStatus, attempts)
  /\ runStatus # "completed"
  /\ AssistantReturn(Text(TimeoutMsg, ""))
  /\ UNCHANGED <<runStatus, attempts, aWaits, aRetrievals, retrievalVars, agentVars, handleVars>>

\* the loop is left with a completed run: messages.list and the answer
AssistantMessages ==
  /\ aPc = "loop"
  /\ ~LoopTest(runStatus, attempts)
  /\ runStatus = "completed"
  /\ \E outcome \in {AssistantAnswer("assistant text"),
                       AssistantAnswer(""),
                       Text(NoResponseMsg, ""),
                       AssistantCatch(Thrown("API error"))} :
       AssistantReturn(outcome)
  /\ UNCHANGED <<runStatus, attempts, aWaits, aRetrievals, retrievalVars, agentVars, handleVars>>

NextAssistant ==
  \/ AssistantStart
  \/ AssistantRetrieve
  \/ AssistantRunFailed
  \/ AssistantWait
  \/ AssistantTimeout
  \/ AssistantMessages

-----------------------------------------------------------------------------
(* executeAgenticRAG and the agent executor it runs *)

MaxIterations == 5

\* the most steps one call of executeAgenticRAG records in the model: one
\* more than the cap on its turns
MaxTrace == MaxIterations + 1

\* export const maxDuration of the route
MaxDuration == 60

StoppedOutput == "Agent stopped due to max iterations."
FallbackAnswer ==
  "I couldn't generate an answer. Please try rephrasing your question."

\* the string the search_chromadb tool returns for a value of its func
ChromaObservation(r) ==
  IF r.kind = "thrown" THEN Thrown(r.text)
  ELSE IF r.kind = "error" THEN Text(r.text, "")
  ELSE IF r.kind = "empty"
  THEN Json([results |-> <<>>, filtersApplied |-> r.filtersApplied])
  ELSE Json([found |-> r.found, scoreThreshold |-> r.scoreThreshold,
             filters |-> r.filters, results |-> r.results])

\* the string the search_openai_assistant tool returns in a given outcome
\* of its run; SpecAssistant shows how each of them comes about
AssistantObservation(outcome) ==
  IF outcome = "answer" THEN AssistantAnswer("assistant text")
  ELSE IF outcome = "blank" THEN AssistantAnswer("")
  ELSE IF outcome = "timeout" THEN Text(TimeoutMsg, "")
  ELSE AssistantCatch(Thrown("API error"))

\* the arguments of the model's calls of search_chromadb
AgentChromaArgs ==
  [k |-> Omitted, scoreThreshold |-> Omitted, category |-> Omitted,
   documentType |-> Omitted, tags |-> Omitted]

\* the tool calls the decision model can ask for, each with what its tool
\* meets: the vector store up or down, the outcome of the assistant's run
Invocations(withAssistant) ==
  { [tool |-> "search_chromadb", toolInput |-> "default", meets |-> m] :
      m \in {"up", "down"} }
  \cup
  IF withAssistant
  THEN { [tool |-> "search_openai_assistant", toolInput |-> "query",
          meets |-> m] :
         m \in {"answer", "blank", "timeout", "error"} }
  ELSE {}

\* the collection the agent's calls of search_chromadb read
AgentStore ==
  <<SentinelDoc>> \o
  IngestDocuments(CHOOSE req \in IngestRequests : req.sourceName = "tech.txt")

\* tool.invoke: the observation of one call
Observe(inv) ==
  IF inv.tool = "search_chromadb"
  THEN ChromaObservation(
         ChromaDBToolFunc(AgentStore, AgentChromaArgs, inv.meets = "up"))
  ELSE AssistantObservation(inv.meets)

ToolFailed(inv) == inv.meets \in {"down", "error"}

\* the step recorded for one call
StepOf(inv) ==
  [action |-> [tool |-> inv.tool, toolInput |-> inv.toolInput],
   observation |-> Observe(inv),
   failed |-> ToolFailed(inv)]

\* the calls of one turn: one to MaxFanout of them
Turns(withAssistant) ==
  UNION { [1..n -> Invocations(withAssistant)] : n \in 1..MaxFanout }

\* the one-second waits an invocation sits through at the least: a run that
\* times out is waited for maxAttempts times
WaitsOf(inv) == IF inv.meets = "timeout" THEN MaxAttempts ELSE 0

\* the calls of a turn run side by side: the turn lasts as long as its
\* longest call
TurnWaits(turn) ==
  IF \E i \in 1..Len(turn) : WaitsOf(turn[i]) > 0 THEN MaxAttempts ELSE 0

\* toolsUsed: each tool name once, in the order of first use
RECURSIVE ToolsUsedFrom(_, _)
ToolsUsedFrom(st, used) ==
  IF st = <<>> THEN used
  ELSE LET toolName == Head(st).action.tool
       IN ToolsUsedFrom(Tail(st),
                        IF ~Includes(used, toolName)
                        THEN Append(used, toolName) ELSE used)

\* the test on toolsUsed.includes left out
ToolsUsedEveryStep(st) == [i \in 1..Len(st) |-> st[i].action.tool]

ToolsUsed(st) == ToolsUsedFrom(st, <<>>)

\* a step whose text observation is taken for a source
SourcesOfStepRaw(step) ==
  IF step.observation.json THEN <<>>
  ELSE << [content |-> step.observation.msg,
           metadata |-> [source |-> "OpenAI Assistant"],
           sourceType |-> "openai_assistant"] >>

\* the sources one step adds: JSON.parse throws on text that is not JSON,
\* and the catch skips the step
SourcesOfStep(step) ==
  LET obs == step.observation
  IN IF ~obs.json THEN <<>>
     ELSE IF "results" \in DOMAIN obs.value
     THEN [i \in 1..Len(obs.value.results) |->
             [content |-> obs.value.results[i].content,
              metadata |-> [source |-> obs.value.results[i].source,
                            rank |-> obs.value.results[i].rank,
                            similarityScore |->
                              obs.value.results[i].similarityScore],
              sourceType |-> "chromadb"]]
     ELSE IF "answer" \in DOMAIN obs.value /\ obs.value.answer # ""
     THEN << [content |-> obs.value.answer,
              metadata |-> [source |-> "OpenAI Assistant"],
              sourceType |-> "openai_assistant"] >>
     ELSE <<>>

\* the sources of the steps before the last one dropped
SourcesOfLastStep(st) ==
  IF st = <<>> THEN <<>> ELSE SourcesOfStep(st[Len(st)])

RECURSIVE Sources(_)
Sources(st) ==
  IF st = <<>> THEN <<>> ELSE SourcesOfStep(Head(st)) \o Sources(Tail(st))

\* reasoning: one "Tool: ..., Input: ..." line per step
Reasoning(st) ==
  [i \in 1..Len(st) |->
     [tool |-> st[i].action.tool, input |-> st[i].action.toolInput]]

\* the value executeAgenticRAG returns for the executor's result
AgenticResult(output, st) ==
  [thrown |-> FALSE,
   answer |-> IF output = "" THEN FallbackAnswer ELSE output,
   sources |-> Sources(st),
   toolsUsed |-> ToolsUsed(st),
   reasoning |-> Reasoning(st)]

NoAgentResult == [thrown |-> FALSE, answer |-> "pending"]

\* a catch that answers with what it has instead of throwing
AgenticCatchPartial(message) == AgenticResult("", <<>>)

\* catch (error) of executeAgenticRAG: a new Error is thrown
AgenticCatch(message) == Thrown("Failed to execute agentic RAG")

\* what POST /api/rag answers for the outcome of executeAgenticRAG
AgenticResponse(result) ==
  IF result.thrown
  THEN [status |-> 500, error |-> "Failed to process query",
        details |-> result.message]
  ELSE [status |-> 200, answer |-> result.answer, sources |-> result.sources,
        toolsUsed |-> result.toolsUsed, reasoning |-> result.reasoning]

InitAgent ==
  /\ agPc = "idle"
  /\ hasAssistant = FALSE
  /\ iterations = 0
  /\ steps = <<>>
  /\ agResult = NoAgentResult
  /\ elapsed = 0

\* executeAgenticRAG is called and builds the executor
AgentInvoke ==
  /\ agPc = "idle"
  /\ hasAssistant' \in BOOLEAN
  /\ agPc' = "decide"
  /\ iterations' = 0
  /\ steps' = <<>>
  /\ agResult' = NoAgentResult
  /\ elapsed' = 0
  /\ UNCHANGED <<retrievalVars, assistantVars, handleVars>>

\* a turn in which the decision model asks for tools: they run, their
\* steps are recorded and the turn is counted
AgentToolTurn ==
  /\ agPc = "decide"
  /\ iterations < MaxIterations
  /\ \E turn \in Turns(hasAssistant) :
       /\ Len(steps) + Len(turn) <= MaxTrace
       /\ LET newSteps == [i \in 1..Len(turn) |-> StepOf(turn[i])]
          IN IF \E i \in 1..Len(newSteps) : newSteps[i].observation.thrown
             THEN /\ agPc' = "thrown"
                  /\ agResult' = Thrown("tool")
                  /\ steps' = <<>>
                  /\ UNCHANGED iterations
             ELSE /\ steps' = steps \o newSteps
                  /\ iterations' = iterations + 1
                  /\ agPc' = IF iterations + 1 < MaxIterations
                             THEN "decide" ELSE "capped"
                  /\ UNCHANGED agResult
       /\ elapsed' = elapsed + TurnWaits(turn)
  /\ UNCHANGED <<hasAssistant, retrievalVars, assistantVars, handleVars>>

\* a turn in which the decision model gives its final answer
AgentFinish ==
  /\ agPc = "decide"
  /\ \E output \in {"final answer", ""} :
       agResult' = AgenticResult(output, steps)
  /\ agPc' = "returned"
  /\ UNCHANGED <<hasAssistant, iterations, steps, elapsed, retrievalVars, assistantVars, handleVars>>

\* the invocation of the decision model fails: the executor's steps are
\* lost with it and executeAgenticRAG throws
AgentDecisionFails ==
  /\ agPc = "decide"
  /\ agResult' = AgenticCatch("decision model error")
  /\ agPc' = "thrown"
  /\ steps' = <<>>
  /\ UNCHANGED <<hasAssistant, iterations, elapsed, retrievalVars, assistantVars, handleVars>>

\* the executor throwing at the cap
AgentStoppedThrows ==
  /\ agPc = "capped"
  /\ agResult' = Thrown("max iterations")
  /\ agPc' = "thrown"
  /\ UNCHANGED <<hasAssistant, iterations, steps, elapsed, retrievalVars, assistantVars, handleVars>>

\* the executor leaves the loop at the cap with its stopped response
AgentStopped ==
  /\ agPc = "capped"
  /\ agResult' = AgenticResult(StoppedOutput, steps)
  /\ agPc' = "returned"
  /\ UNCHANGED <<hasAssistant, iterations, steps, elapsed, retrievalVars, assistantVars, handleVars>>

NextAgent ==
  \/ AgentInvoke
  \/ AgentToolTurn
  \/ AgentFinish
  \/ AgentDecisionFails
  \/ AgentStopped

-----------------------------------------------------------------------------
(* getVectorStore: the lazily initialised global store *)

Callers == 1..NumCallers

\* global.vectorStore undefined
NoHandle == 0

\* a process that has not called getVectorStore yet, on a backend whose
\* collection is coll
ProcessStart(coll) ==
  /\ globalStore = NoHandle
  /\ hPc = [p \in Callers |-> "idle"]
  /\ hMine = [p \in Callers |-> NoHandle]
  /\ handed = {}
  /\ opens = 0
  /\ collection = coll

NoCollection == [exists |-> FALSE, initDocs |-> 0]

\* the collection an earlier process created
CreatedCollection == [exists |-> TRUE, initDocs |-> 1]

\* VECTOR_STORE_PROVIDER left unset: ChromaDB
ChromaEnv == [provider |-> "chromadb", apiKey |-> FALSE, indexName |-> FALSE]

\* the environments the process can be started in; apiKey and indexName
\* tell whether PINECONE_API_KEY and PINECONE_INDEX_NAME are set
Envs ==
  {ChromaEnv} \cup
  [provider : {"pinecone"}, apiKey : BOOLEAN, indexName : BOOLEAN]

InitHandle == ProcessStart(NoCollection) /\ env = ChromaEnv

\* the test on the index name left out
PineconeKeyOnly(e) == e.apiKey

\* the two tests at the head of getPineconeVectorStore
PineconeConfigured(e) == e.apiKey /\ e.indexName

\* the test  if (!global.vectorStore)
NeedsOpen(g) == g = NoHandle

\* getVectorStore is entered: the global is returned when it is set, else
\* the caller starts getChromaVectorStore and awaits fromExistingCollection
GetVectorStore(p) ==
  /\ hPc[p] = "idle"
  /\ IF NeedsOpen(globalStore)
     THEN /\ hPc' = [hPc EXCEPT ![p] =
                      IF env.provider = "pinecone"
                      THEN IF PineconeConfigured(env)
                           THEN "pinecone" ELSE "failed"
                      ELSE "existing"]
          /\ UNCHANGED handed
     ELSE /\ hPc' = [hPc EXCEPT ![p] = "done"]
          /\ handed' = handed \cup {globalStore}
  /\ UNCHANGED <<globalStore, hMine, opens, collection>>
  /\ UNCHANGED <<env, retrievalVars, assistantVars, agentVars>>

\* PineconeStore.fromExistingIndex resolves with a store on the index
PineconeOpened(p) ==
  /\ hPc[p] = "pinecone"
  /\ opens' = opens + 1
  /\ hMine' = [hMine EXCEPT ![p] = opens + 1]
  /\ hPc' = [hPc EXCEPT ![p] = "assign"]
  /\ UNCHANGED <<globalStore, handed, collection>>
  /\ UNCHANGED <<env, retrievalVars, assistantVars, agentVars>>

\* PineconeStore.fromExistingIndex rejects: getVectorStore rejects, the
\* global is left unset
PineconeRejected(p) ==
  /\ hPc[p] = "pinecone"
  /\ hPc' = [hPc EXCEPT ![p] = "failed"]
  /\ UNCHANGED <<globalStore, hMine, handed, opens, collection>>
  /\ UNCHANGED <<env, retrievalVars, assistantVars, agentVars>>

\* Chroma.fromExistingCollection resolves with a store on the collection
ExistingOpened(p) ==
  /\ hPc[p] = "existing"
  /\ collection.exists
  /\ opens' = opens + 1
  /\ hMine' = [hMine EXCEPT ![p] = opens + 1]
  /\ hPc' = [hPc EXCEPT ![p] = "assign"]
  /\ UNCHANGED <<globalStore, handed, collection>>
  /\ UNCHANGED <<env, retrievalVars, assistantVars, agentVars>>

\* Chroma.fromExistingCollection rejects (no collection, or the backend
\* failed): the catch goes on to Chroma.fromDocuments([emptyDoc])
ExistingRejected(p) ==
  /\ hPc[p] = "existing"
  /\ hPc' = [hPc EXCEPT ![p] = "creating"]
  /\ UNCHANGED <<globalStore, hMine, handed, opens, collection>>
  /\ UNCHANGED <<env, retrievalVars, assistantVars, agentVars>>

\* Chroma.fromDocuments resolves: the collection exists and holds one more
\* init document
Created(p) ==
  /\ hPc[p] = "creating"
  /\ collection' = [exists |-> TRUE, initDocs |-> collection.initDocs + 1]
  /\ opens' = opens + 1
  /\ hMine' = [hMine EXCEPT ![p] = opens + 1]
  /\ hPc' = [hPc EXCEPT ![p] = "assign"]
  /\ UNCHANGED <<globalStore, handed>>
  /\ UNCHANGED <<env, retrievalVars, assistantVars, agentVars>>

\* Chroma.fromDocuments rejects: getVectorStore rejects, the global is
\* left unset
CreateRejected(p) ==
  /\ hPc[p] = "creating"
  /\ hPc' = [hPc EXCEPT ![p] = "failed"]
  /\ UNCHANGED <<globalStore, hMine, handed, opens, collection>>
  /\ UNCHANGED <<env, retrievalVars, assistantVars, agentVars>>

\* the await in getVectorStore resumes: the global is assigned and returned
AssignGlobal(p) ==
  /\ hPc[p] = "assign"
  /\ globalStore' = hMine[p]
  /\ handed' = handed \cup {hMine[p]}
  /\ hPc' = [hPc EXCEPT ![p] = "done"]
  /\ UNCHANGED <<hMine, opens, collection>>
  /\ UNCHANGED <<env, retrievalVars, assistantVars, agentVars>>

\* the caller's request is over; its next request calls getVectorStore again
NextRequest(p) ==
  /\ hPc[p] \in {"done", "failed"}
  /\ hPc' = [hPc EXCEPT ![p] = "idle"]
  /\ hMine' = [hMine EXCEPT ![p] = NoHandle]
  /\ UNCHANGED <<globalStore, handed, opens, collection>>
  /\ UNCHANGED <<env, retrievalVars, assistantVars, agentVars>>

NextHandle ==
  \E p \in Callers :
    \/ GetVectorStore(p)
    \/ PineconeOpened(p)
    \/ PineconeRejected(p)
    \/ ExistingOpened(p)
    \/ ExistingRejected(p)
    \/ Created(p)
    \/ CreateRejected(p)
    \/ AssignGlobal(p)
    \/ NextRequest(p)

-----------------------------------------------------------------------------
(* Requests against the collection, served one at a time *)

NoResp == [op |-> "none"]

InitRetrieval ==
  /\ store \in {<<>>, <<SentinelDoc>>}
  /\ resp = NoResp
  /\ llmCalls = 0

\* POST /api/ingest: the chunks of one text are added to the collection
Ingest ==
  \E call \in IngestCalls, addUp \in BOOLEAN :
    /\ resp = NoResp
    /\ Len(store) + Len(call.req.splits) <= MaxStore
    /\ resp' = IngestPost(call, addUp)
    /\ store' = store \o resp'.added
    /\ UNCHANGED <<llmCalls, assistantVars, agentVars, handleVars>>

\* one invocation of the search_chromadb tool
ChromaDBTool ==
  \E args \in ToolArgs, backendUp \in BOOLEAN :
    /\ resp = NoResp
    /\ resp' = ChromaDBToolFunc(store, args, backendUp)
    /\ UNCHANGED <<store, llmCalls, assistantVars, agentVars, handleVars>>

\* POST /api/rag served by executeRAG
ExecuteRAG ==
  \E backendUp \in BOOLEAN, llmUp \in BOOLEAN :
    /\ resp = NoResp
    /\ resp' = ExecuteRAGFunc(store, backendUp, llmUp)
    /\ llmCalls' = IF backendUp /\ RagInvokesLLM(store) THEN 1 ELSE 0
    /\ UNCHANGED <<store, assistantVars, agentVars, handleVars>>

\* GET /api/debug/vectorstore
DebugChromaDB ==
  \E backendUp \in BOOLEAN :
    /\ resp = NoResp
    /\ resp' = DebugChromaDBFunc(store, backendUp)
    /\ UNCHANGED <<store, llmCalls, assistantVars, agentVars, handleVars>>

\* the response is handed to the caller
Respond ==
  /\ resp # NoResp
  /\ resp' = NoResp
  /\ llmCalls' = 0
  /\ UNCHANGED <<store, assistantVars, agentVars, handleVars>>

vars == <<retrievalVars, assistantVars, agentVars, handleVars>>

Init == InitRetrieval /\ InitAssistant /\ InitAgent /\ InitHandle

\* the collection as the agent and the assistant tool find it
InitWithDocuments ==
  /\ store = AgentStore
  /\ resp = NoResp
  /\ llmCalls = 0
  /\ InitAssistant
  /\ InitAgent
  /\ InitHandle

Next == Ingest \/ ChromaDBTool \/ ExecuteRAG \/ DebugChromaDB \/ Respond

Spec == Init /\ [][Next]_vars

\* one call of executeAgenticRAG
SpecAgent == InitWithDocuments /\ [][NextAgent]_vars

\* the chunks of a sequence of ingested texts
RECURSIVE IngestAll(_)
IngestAll(reqs) ==
  IF reqs = <<>> THEN <<>>
  ELSE IngestDocuments(Head(reqs)) \o IngestAll(Tail(reqs))

\* the collections executeRAG is asked on: the init document and the
\* chunks of up to MaxRagIngests texts
RagStores ==
  { <<SentinelDoc>> \o IngestAll(reqs) :
      reqs \in UNION { [1..n -> IngestRequests] : n \in 0..MaxRagIngests } }

InitRag ==
  /\ store \in RagStores
  /\ resp = NoResp
  /\ llmCalls = 0
  /\ InitAssistant
  /\ InitAgent
  /\ InitHandle

NextRag == ExecuteRAG \/ Respond

\* executeRAG asked on a collection that texts were ingested into
SpecRag == InitRag /\ [][NextRag]_vars

\* concurrent requests calling getVectorStore in a fresh process
InitProcess ==
  /\ store = <<>>
  /\ resp = NoResp
  /\ llmCalls = 0
  /\ InitAssistant
  /\ InitAgent
  /\ \E coll \in {NoCollection, CreatedCollection} : ProcessStart(coll)
  /\ env \in Envs

SpecStore == InitProcess /\ [][NextHandle]_vars

\* one invocation of the assistant tool; every await of it is answered
SpecAssistant ==
  InitWithDocuments /\ [][NextAssistant]_vars /\ WF_vars(NextAssistant)

-----------------------------------------------------------------------------
(* Properties of the readers of the collection *)

ToolFound == resp.op = "tool" /\ resp.kind = "found"

\* C1: every result of the search_chromadb tool has a similarityScore at
\* most the threshold the call filtered with; no chunk above it is returned.
C1_ThresholdInclusiveBound ==
  ToolFound =>
    \A i \in 1..Len(resp.results) :
      resp.results[i].similarityScore <= resp.locals.threshold

\* a call that returned results although the store offered a chunk whose
\* score is above the threshold, and one whose score equals it
C1_Witness ==
  /\ ToolFound
  /\ \E i \in 1..Len(resp.candidates) :
       resp.candidates[i].score > resp.locals.threshold
  /\ \E i \in 1..Len(resp.results) :
       resp.results[i].similarityScore = resp.locals.threshold

\* C2: the init document is in no result of the tool, in no source or
\* context entry of executeRAG, and in no document of the debug endpoint.
C2_SentinelExcluded ==
  /\ ToolFound =>
       \A i \in 1..Len(resp.results) : resp.results[i].source # "init"
  /\ (resp.op = "rag" /\ resp.kind # "error") =>
       /\ \A i \in 1..Len(resp.sources) :
            /\ resp.sources[i].metadata.source # "init"
            /\ resp.sources[i].content # SentinelDoc.pageContent
       /\ \A i \in 1..Len(resp.context) :
            resp.context[i].text # SentinelDoc.pageContent
  /\ (resp.op = "debug" /\ resp.kind = "listed") =>
       \A i \in 1..Len(resp.documents) : resp.documents[i].source # "init"

\* the tool returned results from candidates that held the init document
\* within the threshold
C2_Witness ==
  /\ ToolFound
  /\ \E i \in 1..Len(resp.candidates) :
       /\ resp.candidates[i].source = "init"
       /\ resp.candidates[i].score <= resp.locals.threshold

\* C3: the tool returns at most k results: found and the length of
\* results are both at most the positive integer k of the call.
C3_AtMostK ==
  /\ ToolFound =>
       /\ resp.locals.resultCount >= 1
       /\ resp.found <= resp.locals.resultCount
       /\ Len(resp.results) <= resp.locals.resultCount
  /\ (resp.op = "tool" /\ resp.kind = "empty") => Len(resp.results) = 0

\* more candidates passed every filter than k, and k were returned
C3_Witness ==
  /\ ToolFound
  /\ resp.found = resp.locals.resultCount
  /\ Len(FilteredDocsUncut(resp.candidates, SchemaParse(resp.args)))
       > resp.locals.resultCount

\* the tags two arrays share
SharesTag(a, b) == \E i \in 1..Len(a) : Includes(b, a[i])

\* C4: every returned chunk has the category and the documentType that are
\* set in the call and shares a tag with a non-empty tags list of the call.
C4_MetadataPredicatesExact ==
  ToolFound =>
    \A i \in 1..Len(resp.results) :
      LET r == resp.results[i]
          a == resp.args
      IN /\ TruthyStr(a.category) => r.category = a.category.val
         /\ TruthyStr(a.documentType) => r.documentType = a.documentType.val
         /\ (~a.tags.isNull /\ Len(a.tags.val) > 0) =>
              SharesTag(a.tags.val, r.tags)

\* a call filtered by category returned results while a candidate of
\* another category was closer than every returned chunk
C4_Witness ==
  /\ ToolFound
  /\ TruthyStr(resp.args.category)
  /\ \E i \in 1..Len(resp.candidates) :
       /\ resp.candidates[i].category = "Healthcare"
       /\ \A j \in 1..Len(resp.results) :
            resp.candidates[i].score < resp.results[j].similarityScore

OnlySentinel(st) == \A i \in 1..Len(st) : st[i].source = "init"

\* C5: with an empty store or one holding only the init document,
\* executeRAG returns the fixed answer with no sources and calls no LLM;
\* the LLM is called only when a chunk other than the init document exists.
C5_EmptyContextRefusal ==
  resp.op = "rag" =>
    /\ (resp.kind # "error" /\ OnlySentinel(store)) =>
         /\ resp.answer = RefusalAnswer
         /\ resp.sources = <<>>
         /\ llmCalls = 0
    /\ (resp.kind = "refused") => llmCalls = 0
    /\ llmCalls > 0 => ~OnlySentinel(store)

\* executeRAG refused on a store that holds the init document alone
C5_Witness ==
  /\ resp.op = "rag"
  /\ resp.kind = "refused"
  /\ store = <<SentinelDoc>>

\* the number of chunks of st that are not the init document
RECURSIVE RealChunks(_)
RealChunks(st) ==
  IF st = <<>> THEN 0
  ELSE (IF Head(st).source = "init" THEN 0 ELSE 1) + RealChunks(Tail(st))

\* C10: the totalCount of the debug endpoint counts only the chunks that
\* are not the init document, and equals the number of documents listed
\* when the store holds at most 100 chunks.
C10_TotalCountExcludesSentinel ==
  (resp.op = "debug" /\ resp.kind = "listed") =>
    /\ resp.totalCount = RealChunks(store)
    /\ Len(store) <= DebugLimit => resp.totalCount = Len(resp.documents)

\* the candidate passes none of the filters' combination: it is cut by the
\* threshold, is init or test data, or misses a metadata filter that is set
Eliminated(doc, in) ==
  \/ doc.score > Coalesce(in.scoreThreshold, FallbackThreshold)
  \/ doc.source = "init"
  \/ IsTestSample(doc.source)
  \/ doc.source = "user_upload" /\ doc.documentName \in {Undefined, ""}
  \/ TruthyStr(in.category) /\ doc.category # in.category.val
  \/ TruthyStr(in.documentType) /\ doc.documentType # in.documentType.val
  \/ /\ ~in.tags.isNull
     /\ in.tags.val # <<>>
     /\ ~SharesTag(in.tags.val, TagsArray(doc))

\* C16: when the filters eliminate every candidate the tool returns an
\* envelope with results = [] and the category, documentType, tags and
\* threshold it filtered with; a backend failure returns the text
\* "Error searching ChromaDB" instead, which is no such envelope.
C16_EmptyEnvelope ==
  resp.op = "tool" =>
    /\ resp.kind = "error" =>
         /\ resp.text = "Error searching ChromaDB"
         /\ "results" \notin DOMAIN resp
         /\ ~ChromaObservation(resp).json
    /\ resp.kind # "error" =>
         LET in == SchemaParse(resp.args)
             allEliminated ==
               \A i \in 1..Len(resp.candidates) :
                 Eliminated(resp.candidates[i], in)
         IN /\ allEliminated <=> resp.kind = "empty"
            /\ resp.kind = "empty" =>
                 /\ resp.results = <<>>
                 /\ resp.filtersApplied.category = in.category
                 /\ resp.filtersApplied.documentType = in.documentType
                 /\ resp.filtersApplied.tags = in.tags
                 /\ resp.filtersApplied.scoreThreshold
                      = Some(resp.locals.threshold)
                 /\ ChromaObservation(resp).json
                 /\ ChromaObservation(resp).value.results = <<>>

\* the store offered candidates within reach, the call sent a null
\* threshold and a category, and every candidate was eliminated
C16_Witness ==
  /\ resp.op = "tool"
  /\ resp.kind = "empty"
  /\ Len(resp.candidates) >= 2
  /\ resp.args.scoreThreshold = Null
  /\ TruthyStr(resp.args.category)
  /\ \E i \in 1..Len(resp.candidates) :
       /\ resp.candidates[i].source # "init"
       /\ resp.candidates[i].score <= resp.locals.threshold

\* the positions of the candidates, in ascending order, that the results
\* were taken from
IsSubsequenceOf(results, candidates) ==
  \E f \in [1..Len(results) -> 1..Len(candidates)] :
    /\ \A i \in 1..Len(results) :
         /\ results[i].content = candidates[f[i]].pageContent
         /\ results[i].source = candidates[f[i]].source
         /\ results[i].chunkIndex = candidates[f[i]].chunkIndex
         /\ results[i].similarityScore = candidates[f[i]].score
    /\ \A i, j \in 1..Len(results) : i < j => f[i] < f[j]

\* C19: the results of the tool are a subsequence of the candidates in
\* their order: their scores are non-decreasing and their ranks are 1..n.
C19_OrderPreserved ==
  ToolFound =>
    /\ \A i \in 1..(Len(resp.candidates) - 1) :
         resp.candidates[i].score <= resp.candidates[i + 1].score
    /\ IsSubsequenceOf(resp.results, resp.candidates)
    /\ \A i \in 1..(Len(resp.results) - 1) :
         resp.results[i].similarityScore <= resp.results[i + 1].similarityScore
    /\ \A i \in 1..Len(resp.results) : resp.results[i].rank = i

\* two results were returned, a candidate between them was dropped
C19_Witness ==
  /\ ToolFound
  /\ Len(resp.results) = 2
  /\ resp.results[1].similarityScore < resp.results[2].similarityScore
  /\ \E i \in 1..Len(resp.candidates) :
       /\ resp.candidates[i].score > resp.results[1].similarityScore
       /\ resp.candidates[i].score < resp.results[2].similarityScore

\* the candidates that no filter eliminates
Survivors(candidates, in) ==
  SelectSeq(candidates, LAMBDA d : ~Eliminated(d, in))

\* C22: an invocation of the tool makes one similaritySearchWithScore call
\* for k x 3 candidates, 12 when k is left out or null, and every result
\* comes from that one list of candidates.
C22_SingleOverFetch ==
  (resp.op = "tool" /\ resp.kind # "error") =>
    LET in == SchemaParse(resp.args)
        kGiven == IF in.k.isNull THEN 4 ELSE in.k.val
    IN /\ resp.locals.searches = 1
       /\ resp.locals.fetched = kGiven * 3
       /\ resp.args.k.isNull => resp.locals.fetched = 12
       /\ resp.candidates = SimilaritySearchWithScore(store, kGiven * 3)
       /\ Len(resp.results)
            = Min(kGiven, Len(Survivors(resp.candidates, in)))
       /\ \A i \in 1..Len(resp.results) :
            resp.results[i].content
              = Survivors(resp.candidates, in)[i].pageContent

\* a call with k = 1 searched for 3 candidates in a store of 4 chunks and
\* returned one of them
C22_Witness ==
  /\ ToolFound
  /\ resp.locals.resultCount = 1
  /\ Len(store) = 4
  /\ Len(resp.candidates) = 3
  /\ Len(resp.results) = 1

\* C23: the relevance of a result is "high" iff its score is at most 0.3,
\* "medium" iff it is above 0.3 and at most 0.5, and "low" otherwise; the
\* results are the surviving candidates whatever their tier.
C23_RelevanceTiers ==
  ToolFound =>
    /\ \A i \in 1..Len(resp.results) :
         LET r == resp.results[i]
         IN /\ r.relevance = "high" <=> r.similarityScore <= 3
            /\ r.relevance = "medium" <=>
                 (r.similarityScore > 3 /\ r.similarityScore <= 5)
            /\ r.relevance = "low" <=> r.similarityScore > 5
    /\ Len(resp.results)
         = Min(resp.locals.resultCount,
               Len(Survivors(resp.candidates, SchemaParse(resp.args))))

\* a chunk at 0.3 was returned as "high" and one at 0.5 as "medium"
\* together with a chunk of tier "low" inside the threshold
C23_Witness ==
  /\ ToolFound
  /\ \E i \in 1..Len(resp.results) :
       resp.results[i].similarityScore = 3 /\ resp.results[i].relevance = "high"
  /\ \E i \in 1..Len(resp.results) :
       resp.results[i].similarityScore = 5
         /\ resp.results[i].relevance = "medium"
  /\ \E i \in 1..Len(resp.results) : resp.results[i].relevance = "low"

\* C25: with no scoreThreshold given, left out or null alike, the tool
\* filters with 1.2; with no k given, left out or null alike, it returns
\* at most 4 results.
C25_DefaultsAlike ==
  (resp.op = "tool" /\ resp.kind # "error") =>
    /\ resp.args.scoreThreshold.isNull => resp.locals.threshold = 12
    /\ resp.args.k.isNull =>
         (resp.locals.resultCount = 4 /\ Len(resp.results) <= 4)

\* C27: the threshold an envelope of the tool reports is the threshold the
\* call filtered with, in the envelope without results and in the one
\* with results.
C27_ReportedThreshold ==
  /\ (resp.op = "tool" /\ resp.kind = "empty") =>
       resp.filtersApplied.scoreThreshold = Some(resp.locals.threshold)
  /\ ToolFound => resp.scoreThreshold = Some(resp.locals.threshold)

\* the chunks of st that pass every filter of the call, nearest first
Qualifying(st, in) == Survivors(NearestFirst(st), in)

\* C28: when the store holds a chunk that passes every filter of the call,
\* the tool returns results and the first of them is the nearest such
\* chunk, however many nearer chunks fail the filters.
C28_CompleteForFilter ==
  (resp.op = "tool" /\ resp.kind # "error") =>
    LET qualifying == Qualifying(store, SchemaParse(resp.args))
    IN qualifying # <<>> =>
         /\ resp.kind = "found"
         /\ resp.results[1].content = qualifying[1].pageContent
         /\ resp.results[1].similarityScore = qualifying[1].score

\* the tags array sent with the text that the chunks of a source came from
IngestedTags(source) ==
  LET req == CHOOSE req \in IngestRequests :
               source = (IF TruthyStr(req.documentName)
                         THEN req.documentName.val ELSE req.sourceName)
  IN IF req.tags.isNull THEN <<>> ELSE req.tags.val

\* C29: the tags a result reports are the tags its text was ingested
\* with, and a call filtered by tags returns a chunk only if one of the
\* tags asked for is among the chunk's ingested tags, also for a tag that
\* holds a comma.
C29_TagsRoundTrip ==
  ToolFound =>
    \A i \in 1..Len(resp.results) :
      LET r == resp.results[i]
          asked == SchemaParse(resp.args).tags
      IN /\ r.tags = IngestedTags(r.source)
         /\ (~asked.isNull /\ asked.val # <<>>) =>
              SharesTag(asked.val, IngestedTags(r.source))

\* C30: executeRAG answers from min(4, N) chunks, N being the number of
\* chunks of the store other than the init document, and source i is the
\* chunk numbered i in the context block.
C30_GroundedOnFour ==
  (resp.op = "rag" /\ resp.kind # "error") =>
    /\ Len(resp.sources) = Min(4, RealChunks(store))
    /\ Len(resp.context) = Len(resp.sources)
    /\ \A i \in 1..Len(resp.sources) :
         /\ resp.context[i].number = i
         /\ resp.context[i].text = resp.sources[i].content

-----------------------------------------------------------------------------
(* Properties of ingestion *)

\* C11: the chunks of an ingested text are handed to the store with
\* chunkIndex 0, 1, ..., n-1 in the order of the text, and the chunk count
\* reported to the caller is n, the number of documents added.
C11_ChunkIndexContiguous ==
  [][(resp'.op = "ingest" /\ resp'.kind = "ingested") =>
       LET n == Len(resp'.call.req.splits)
       IN /\ resp'.chunks = n
          /\ Len(store') = Len(store) + n
          /\ SubSeq(store', 1, Len(store)) = store
          /\ \A i \in 1..n :
               /\ store'[Len(store) + i].chunkIndex = i - 1
               /\ store'[Len(store) + i].pageContent
                    = resp'.call.req.splits[i].text]_vars

\* a text of two chunks was ingested into a store that held chunks before
C11_Witness ==
  /\ resp.op = "ingest"
  /\ resp.kind = "ingested"
  /\ resp.chunks = 2
  /\ Len(store) > 2
  /\ store[Len(store) - 1].chunkIndex = 0
  /\ store[Len(store)].chunkIndex = 1

\* C12: ingestion of a text that is empty or not a string fails and adds
\* nothing to the store, on the JSON path and on the file path alike; no
\* such call is answered with success.
C12_EmptyTextRejected ==
  (resp.op = "ingest" /\ (EmptyText(resp.call) \/ resp.call.textKind # "string"))
    => /\ resp.kind \in {"rejected", "failed"}
       /\ resp.status >= 400
       /\ resp.added = <<>>

-----------------------------------------------------------------------------
(* Properties of the assistant tool *)

\* C8: an invocation of the assistant tool ends; it waits at most 30 times
\* and retrieves the status at most 31 times; it never throws; and when all
\* 31 retrievals have shown a run that is not completed it returns the
\* timeout message as a string.
C8_PollingTerminates ==
  /\ [](/\ aWaits <= 30
        /\ aRetrievals <= 31
        /\ ~aResult.thrown
        /\ (aPc = "done" /\ attempts = 30 /\ runStatus # "completed") =>
             aResult = Text(TimeoutMsg, ""))
  /\ <>(aPc = "done")

\* the run stayed pending through 30 waits and 31 retrievals, and the
\* invocation returned the timeout message
C8_Witness ==
  /\ aPc = "done"
  /\ aWaits = 30
  /\ aRetrievals = 31
  /\ runStatus \in PendingStatuses
  /\ aResult = Text(TimeoutMsg, "")

\* C26: when the last status the tool saw is failed, cancelled or expired
\* it returns the run-failed message with that status, never the timeout
\* message, also when the status shows on the last poll; the answer
\* envelope is returned only for a run last seen completed.
C26_FailedRunReported ==
  aPc = "done" =>
    /\ runStatus \in FailedStatuses => aResult = Text(RunFailedMsg, runStatus)
    /\ aResult.json => runStatus = "completed"

-----------------------------------------------------------------------------
(* Properties of the agent loop *)

\* C6: the agent loop ends within 5 iterations and the trace it returns
\* holds at most 5 tool invocations.
C6_TraceWithinCap ==
  /\ iterations <= 5
  /\ Len(steps) <= 5
  /\ (agPc = "returned") => Len(agResult.reasoning) <= 5

\* C7: a failure inside a tool invocation never ends the loop: no tool
\* function throws, so executeAgenticRAG throws only when the decision model
\* fails; the failure is recorded as a text observation; and the turn is
\* counted like any other, with a further decision turn while under the cap.
C7_ToolFailureIsObservation ==
  /\ [](agPc = "thrown" => agResult = Thrown("Failed to execute agentic RAG"))
  /\ [](\A i \in 1..Len(steps) :
          steps[i].failed =>
            /\ ~steps[i].observation.thrown
            /\ ~steps[i].observation.json
            /\ steps[i].observation.msg \in
                 {"Error searching ChromaDB", AssistantErrorMsg})
  /\ [][(agPc = "decide" /\ Len(steps') > Len(steps)
           /\ \E i \in (Len(steps) + 1)..Len(steps') : steps'[i].failed)
         => /\ iterations' = iterations + 1
            /\ iterations' < 5 => agPc' = "decide"
            /\ iterations' = 5 => agPc' = "capped"]_vars

\* both tools failed in the first two turns and the loop went on to a
\* third turn and stands before a fourth decision
C7_Witness ==
  /\ agPc = "decide"
  /\ iterations = 3
  /\ Len(steps) = 3
  /\ steps[1].failed /\ steps[1].action.tool = "search_chromadb"
  /\ steps[2].failed /\ steps[2].action.tool = "search_openai_assistant"
  /\ ~steps[3].failed

\* the position of the first step of st that called the tool
FirstUse(st, toolName) ==
  CHOOSE i \in 1..Len(st) :
    /\ st[i].action.tool = toolName
    /\ \A j \in 1..(i - 1) : st[j].action.tool # toolName

\* C14: toolsUsed holds each tool name of the trace exactly once, in the
\* order of first use, and no other name; reasoning has one line per step,
\* in the order of the steps.
C14_ToolsUsedAndReasoning ==
  (agPc = "returned") =>
    LET used == agResult.toolsUsed
        lines == agResult.reasoning
    IN /\ \A i \in 1..Len(steps) : Includes(used, steps[i].action.tool)
       /\ \A i \in 1..Len(used) :
            \E j \in 1..Len(steps) : steps[j].action.tool = used[i]
       /\ \A i, j \in 1..Len(used) :
            /\ i # j => used[i] # used[j]
            /\ i < j => FirstUse(steps, used[i]) < FirstUse(steps, used[j])
       /\ Len(lines) = Len(steps)
       /\ \A i \in 1..Len(steps) :
            /\ lines[i].tool = steps[i].action.tool
            /\ lines[i].input = steps[i].action.toolInput

\* the assistant was called first, the vector store second and the
\* assistant again: two names in toolsUsed, three lines of reasoning
C14_Witness ==
  /\ agPc = "returned"
  /\ Len(steps) = 3
  /\ steps[1].action.tool = "search_openai_assistant"
  /\ steps[2].action.tool = "search_chromadb"
  /\ steps[3].action.tool = "search_openai_assistant"
  /\ agResult.toolsUsed = <<"search_openai_assistant", "search_chromadb">>
  /\ Len(agResult.reasoning) = 3

\* C15: a call of executeAgenticRAG never runs past the request budget of
\* 60 units, counting one unit per polling wait of its tool calls.
C15_WithinRequestBudget == elapsed <= MaxDuration

TimedOut(step) == step.observation = Text(TimeoutMsg, "")

\* the steps that called the search_chromadb tool
PrimarySteps(st) ==
  SelectSeq(st, LAMBDA step : step.action.tool = "search_chromadb")

\* C17: a timeout of the assistant tool is recorded as the observation of
\* its step and the loop goes on; the step is in toolsUsed and reasoning,
\* adds no source, leaves the sources of the vector-store steps as they
\* are, and the call returns an answer.
C17_TimeoutIsObservation ==
  /\ elapsed > 0 =>
       /\ agPc \in {"decide", "capped", "returned"} =>
            \E i \in 1..Len(steps) :
              /\ TimedOut(steps[i])
              /\ ~steps[i].observation.thrown
       /\ agPc = "thrown" => agResult = Thrown("Failed to execute agentic RAG")
  /\ agPc = "returned" =>
       /\ ~agResult.thrown
       /\ agResult.answer # ""
       /\ \A i \in 1..Len(steps) :
            TimedOut(steps[i]) =>
              /\ steps[i].action.tool = "search_openai_assistant"
              /\ Includes(agResult.toolsUsed, "search_openai_assistant")
              /\ agResult.reasoning[i].tool = "search_openai_assistant"
       /\ \A i \in 1..Len(agResult.sources) :
            /\ agResult.sources[i].content # TimeoutMsg
            /\ agResult.sources[i].sourceType = "openai_assistant" =>
                 agResult.sources[i].content = "assistant text"
       /\ SelectSeq(agResult.sources,
                    LAMBDA src : src.sourceType = "chromadb")
            = Sources(PrimarySteps(steps))
       /\ Len(agResult.sources)
            = Len(Sources(SelectSeq(steps, LAMBDA step : ~TimedOut(step))))

\* the vector store answered, the assistant timed out, and the call
\* returned the model's answer with the vector store's sources alone
C17_Witness ==
  /\ agPc = "returned"
  /\ Len(steps) = 2
  /\ steps[1].action.tool = "search_chromadb" /\ steps[1].observation.json
  /\ TimedOut(steps[2])
  /\ agResult.answer = "final answer"
  /\ agResult.toolsUsed = <<"search_chromadb", "search_openai_assistant">>
  /\ Len(agResult.sources) = 1
  /\ agResult.sources[1].sourceType = "chromadb"

\* C18: at the cap of 5 iterations without a final answer the call
\* returns: it takes no further turn and does not throw, its answer is not
\* empty, and its sources, toolsUsed and reasoning are those of the steps
\* taken.
C18_CapReturnsPartial ==
  /\ iterations <= 5
  /\ agPc = "capped" <=> (iterations = 5 /\ agResult = NoAgentResult)
  /\ iterations = 5 =>
       /\ agPc \in {"capped", "returned"}
       /\ Len(steps) >= 5
       /\ agPc = "returned" =>
            /\ ~agResult.thrown
            /\ agResult.answer # ""
            /\ Len(agResult.reasoning) = Len(steps)
            /\ agResult.toolsUsed # <<>>
            /\ \A i \in 1..Len(steps) :
                 Includes(agResult.toolsUsed, steps[i].action.tool)
            /\ agResult.sources = Sources(steps)
            /\ \A i \in 1..Len(steps) :
                 (steps[i].action.tool = "search_chromadb" /\ ~steps[i].failed)
                   => \E j \in 1..Len(agResult.sources) :
                        agResult.sources[j].sourceType = "chromadb"

\* five turns were taken and the call returned the executor's stopped
\* response with the sources of the steps
C18_Witness ==
  /\ agPc = "returned"
  /\ iterations = 5
  /\ Len(steps) = 5
  /\ agResult.answer = StoppedOutput
  /\ Len(agResult.sources) >= 2
  /\ Len(agResult.reasoning) = 5

\* the number of sources the observation of a step stands for: one per
\* entry of a results list, one for an answer that is not empty
ExpectedCount(step) ==
  LET obs == step.observation
  IN IF obs.thrown \/ ~obs.json THEN 0
     ELSE IF "results" \in DOMAIN obs.value THEN Len(obs.value.results)
     ELSE IF "answer" \in DOMAIN obs.value /\ obs.value.answer # "" THEN 1
     ELSE 0

\* the number of sources of the first n steps
RECURSIVE ExpectedBefore(_, _)
ExpectedBefore(st, n) ==
  IF n = 0 THEN 0 ELSE ExpectedBefore(st, n - 1) + ExpectedCount(st[n])

\* C24: sources is the concatenation, in the order of the steps, of one
\* source of type "chromadb" per entry of a results list, one source of
\* type "openai_assistant" per answer, and nothing for an observation that
\* is not JSON; such an observation neither ends the synthesis nor drops
\* the sources of other steps.
C24_SourcesConcatenated ==
  (agPc = "returned") =>
    /\ ~agResult.thrown
    /\ Len(agResult.sources) = ExpectedBefore(steps, Len(steps))
    /\ \A n \in 1..Len(steps) :
         LET obs == steps[n].observation
             base == ExpectedBefore(steps, n - 1)
         IN \A i \in 1..ExpectedCount(steps[n]) :
              LET src == agResult.sources[base + i]
              IN IF "results" \in DOMAIN obs.value
                 THEN /\ src.sourceType = "chromadb"
                      /\ src.content = obs.value.results[i].content
                      /\ src.metadata.rank = obs.value.results[i].rank
                 ELSE /\ src.sourceType = "openai_assistant"
                      /\ src.content = obs.value.answer
                      /\ src.metadata.source = "OpenAI Assistant"

\* the vector store answered, the assistant failed with an error text and
\* then answered: two sources from three steps, in the order of the steps
C24_Witness ==
  /\ agPc = "returned"
  /\ Len(steps) = 3
  /\ steps[1].action.tool = "search_chromadb" /\ steps[1].observation.json
  /\ steps[2].failed /\ ~steps[2].observation.json
  /\ steps[3].action.tool = "search_openai_assistant"
  /\ steps[3].observation.json
  /\ Len(agResult.sources) = 2
  /\ agResult.sources[1].sourceType = "chromadb"
  /\ agResult.sources[2].sourceType = "openai_assistant"

\* C13: when the invocation of the decision model fails, executeAgenticRAG
\* throws and returns no answer, sources or toolsUsed, and the request is
\* answered with status 500, an error kind and a detail string.
C13_DecisionFailureIsHard ==
  agPc = "thrown" =>
    /\ agResult.thrown
    /\ DOMAIN agResult \cap {"answer", "sources", "toolsUsed"} = {}
    /\ AgenticResponse(agResult)
         = [status |-> 500, error |-> "Failed to process query",
            details |-> "Failed to execute agentic RAG"]

\* the decision model failed after two turns whose steps had been recorded
C13_Witness ==
  /\ agPc = "thrown"
  /\ iterations = 2
  /\ steps = <<>>
  /\ agResult.thrown
  /\ AgenticResponse(agResult).status = 500

-----------------------------------------------------------------------------
(* Properties of getVectorStore *)

\* C9: under any interleaving of calls of getVectorStore the backing store
\* is opened or created at most once and every caller receives the same
\* store object.
C9_SingleSharedInstance ==
  /\ opens <= 1
  /\ Cardinality(handed) <= 1

\* C21: with Pinecone selected and PINECONE_API_KEY or PINECONE_INDEX_NAME
\* missing, every call of getVectorStore fails, no store is opened or
\* handed out, the global stays unset, and so every later call tries the
\* initialization again.
C21_PineconeMisconfigured ==
  (env.provider = "pinecone" /\ ~(env.apiKey /\ env.indexName)) =>
    /\ globalStore = NoHandle
    /\ NeedsOpen(globalStore)
    /\ handed = {}
    /\ opens = 0
    /\ \A p \in Callers :
         /\ hPc[p] \in {"idle", "failed"}
         /\ hMine[p] = NoHandle

\* Pinecone is selected with the key set and the index name missing, and
\* the calls of two requests have failed
C21_Witness ==
  /\ env = [provider |-> "pinecone", apiKey |-> TRUE, indexName |-> FALSE]
  /\ hPc[1] = "failed"
  /\ hPc[2] = "failed"
  /\ globalStore = NoHandle

\* C20: under any interleaving of calls of getVectorStore the collection
\* holds at most one init document.
C20_AtMostOneSentinel == collection.initDocs <= 1

=============================================================================
